---- MODULE Spec2Model ----
(***************************************************************************)
(* Model of mdns/dnssd.py: the four label encoders of a DNS-SD Service     *)
(* Instance Name (instance_to_bytes, service_to_bytes, subtype_to_bytes,   *)
(* domain_to_bytes) and the ServiceInstance entity.                        *)
(*                                                                         *)
(* A text (unicode) is a sequence of code points, a byte string a sequence *)
(* of integers in 0..255.  Each behaviour draws one call and its arguments *)
(* in Init and applies the called function in one step.                    *)
(***************************************************************************)
EXTENDS Integers, Sequences, FiniteSets, TLC

VARIABLES
    pc,        \* "call" before the drawn call has run, "done" after it,
               \* "object" while a constructed ServiceInstance is alive
    py,        \* major version of the interpreter that runs the module
    op,        \* name of the function drawn
    text,      \* unicode argument of an encoder
    escape,    \* escape argument of instance_to_bytes
    args,      \* arguments of the ServiceInstance constructor
    ret,       \* outcome of the last call: [status, val]
    self,      \* fields of the ServiceInstance object
    warned,    \* number of LOG.warning calls made
    query      \* arguments of is_instance_of_service

vars == <<pc, py, op, text, escape, args, ret, self, warned, query>>

----------------------------------------------------------------------------
(* Bounds of the input space *)

\* longest freely chosen part of an instance, service-name or subtype text
MaxHead == 2
\* longest domain text
MaxDomainLen == 5

----------------------------------------------------------------------------
(* Code points and bytes *)

NUL == 0
LF == 10
UNIT_SEPARATOR == 31
HYPHEN == 45
DOT == 46
BACKSLASH == 92
UNDERSCORE == 95
DEL == 127

Byte == 0..255

Digits == 48..57
UpperLetters == 65..90
LowerLetters == 97..122

\* n times the code point c
Repeat(c, n) == [i \in 1..n |-> c]

RECURSIVE SeqsUpTo(_, _)
SeqsUpTo(S, n) ==
    IF n = 0 THEN {<<>>}
    ELSE LET shorter == SeqsUpTo(S, n - 1)
         IN  shorter \cup {Append(s, c) : s \in {x \in shorter : Len(x) = n - 1}, c \in S}

\* canonical composition of a starter with a following combining acute accent
ComposeAcute(c) ==
    CASE c = 65 -> 193
      [] c = 69 -> 201
      [] c = 97 -> 225
      [] c = 101 -> 233
      [] OTHER -> 0

\* one code point c taken into the normalized output: a combining accent is
\* composed with the starter before it when a composite exists
NFCStep(out, c) ==
    LET last == IF out = <<>> THEN 0 ELSE out[Len(out)]
    IN  IF c = 769 /\ ComposeAcute(last) # 0
        THEN [out EXCEPT ![Len(out)] = ComposeAcute(last)]
        ELSE Append(out, c)

\* the code points t[lo..hi] taken in order into out (the test on the left
\* half only makes TLC compute it before the right half is entered)
RECURSIVE NFCInto(_, _, _, _)
NFCInto(out, t, lo, hi) ==
    IF lo > hi THEN out
    ELSE IF lo = hi THEN NFCStep(out, t[lo])
    ELSE LET left == NFCInto(out, t, lo, (lo + hi) \div 2)
         IN  IF Len(left) >= 0 THEN NFCInto(left, t, ((lo + hi) \div 2) + 1, hi) ELSE left

\* unicodedata.normalize('NFC', t), on the code points of the input alphabets
NFC(t) == NFCInto(<<>>, t, 1, Len(t))

\* the UTF-8 encoding of one code point below 0x10000
Utf8Char(c) ==
    IF c < 128 THEN <<c>>
    ELSE IF c < 2048 THEN <<192 + (c \div 64), 128 + (c % 64)>>
    ELSE <<224 + (c \div 4096), 128 + ((c \div 64) % 64), 128 + (c % 64)>>

\* the encodings of t[lo..hi], one after the other
RECURSIVE Utf8Range(_, _, _)
Utf8Range(t, lo, hi) ==
    IF lo > hi THEN <<>>
    ELSE IF lo = hi THEN Utf8Char(t[lo])
    ELSE Utf8Range(t, lo, (lo + hi) \div 2) \o Utf8Range(t, ((lo + hi) \div 2) + 1, hi)

\* t.encode('utf-8')
Utf8(t) == Utf8Range(t, 1, Len(t))

\* b[lo..hi] with every byte old replaced by the bytes new
RECURSIVE ReplaceRange(_, _, _, _, _)
ReplaceRange(b, old, new, lo, hi) ==
    IF lo > hi THEN <<>>
    ELSE IF lo = hi THEN (IF b[lo] = old THEN new ELSE <<b[lo]>>)
    ELSE ReplaceRange(b, old, new, lo, (lo + hi) \div 2)
         \o ReplaceRange(b, old, new, ((lo + hi) \div 2) + 1, hi)

\* b.replace(old, new) for a one-byte old
BytesReplace(b, old, new) == ReplaceRange(b, old, new, 1, Len(b))

----------------------------------------------------------------------------
(* Python's re, for the constructs the two patterns use.  A pattern is a   *)
(* tree; Ends(re, b, S) is the set of positions at which a match of re     *)
(* that starts at a position of S can end.                                 *)

Cls(s) == [t |-> "cls", s |-> s]
Cat(x, y) == [t |-> "cat", x |-> x, y |-> y]
Opt(x) == [t |-> "opt", x |-> x]
Star(x) == [t |-> "star", x |-> x]
Plus(x) == [t |-> "plus", x |-> x]

\* '.' without re.DOTALL: any byte but the newline
AnyButNewline == Cls(Byte \ {LF})

\* the least k with n < 2^k
RECURSIVE Log2Ceil(_)
Log2Ceil(n) == IF n < 1 THEN 0 ELSE 1 + Log2Ceil(n \div 2)

RECURSIVE Ends(_, _, _), Repeated(_, _, _, _), StarEnds(_, _, _)
Ends(re, b, S) ==
    CASE re.t = "cls" -> {p + 1 : p \in {q \in S : q < Len(b) /\ b[q + 1] \in re.s}}
      [] re.t = "cat" -> Ends(re.y, b, Ends(re.x, b, S))
      [] re.t = "opt" -> S \cup Ends(re.x, b, S)
      [] re.t = "star" -> StarEnds(re.x, b, S)
      [] re.t = "plus" -> StarEnds(re.x, b, Ends(re.x, b, S))
\* S after up to 2^k more matches of x, stopping once a match adds no position
Repeated(x, b, S, k) ==
    IF k = 0 THEN S \cup Ends(x, b, S)
    ELSE LET T == Repeated(x, b, S, k - 1)
         IN  IF T = S THEN S ELSE Repeated(x, b, T, k - 1)
\* x*: every position reached by matches of x one after the other
StarEnds(x, b, S) == Repeated(x, b, S, Log2Ceil(Len(b) + 1))

\* '$' without re.MULTILINE: the end of the string, or just before a
\* newline that ends the string
DollarAt(b, p) == p = Len(b) \/ (p = Len(b) - 1 /\ b[Len(b)] = LF)

\* re.match(b'^' + re + b'$', b) is not None
ReMatch(re, b) == \E p \in Ends(re, b, {0}) : DollarAt(b, p)

\* the bytes listed in the negated class: chr(c) for c in range(0x00, 0x1F), and chr(0x7F)
InstanceClassListed == (NUL .. (UNIT_SEPARATOR - 1)) \cup {DEL}

INSTANCE_REGEX_PATTERN ==
    Cat(Star(AnyButNewline), Cat(Cls(Byte \ InstanceClassListed), Star(AnyButNewline)))

SERVICE_NAME_REGEX_PATTERN ==
    Cat(Star(Cat(Plus(Cls(Digits)), Opt(Cls({HYPHEN})))),
        Cat(Cls(UpperLetters \cup LowerLetters),
            Star(Cat(Opt(Cls({HYPHEN})), Cls(UpperLetters \cup LowerLetters \cup Digits)))))

----------------------------------------------------------------------------
(* Outcomes *)

Return(v) == [status |-> "ok", val |-> v]
Raise(e) == [status |-> e, val |-> <<>>]
NoRet == [status |-> "none", val |-> <<>>]

----------------------------------------------------------------------------
(* instance_to_bytes *)

\* the octet limit of a label
MaxLabelOctets == 63

\* instance_to_bytes with the length tested before the escaping
instance_to_bytes_limit_before_escape(instance, esc) ==
    LET encoded == Utf8(NFC(instance))
        escaped == IF esc
                   THEN BytesReplace(BytesReplace(encoded, BACKSLASH, <<BACKSLASH, BACKSLASH>>),
                                     DOT, <<BACKSLASH, DOT>>)
                   ELSE encoded
    IN  IF ~ReMatch(INSTANCE_REGEX_PATTERN, encoded)
        THEN Raise("InvalidInstanceError")
        ELSE IF Len(encoded) > MaxLabelOctets
        THEN Raise("InvalidInstanceError")
        ELSE Return(escaped)

instance_to_bytes(instance, esc) ==
    LET encoded == Utf8(NFC(instance))
        escaped == IF esc
                   THEN BytesReplace(BytesReplace(encoded, BACKSLASH, <<BACKSLASH, BACKSLASH>>),
                                     DOT, <<BACKSLASH, DOT>>)
                   ELSE encoded
    IN  IF ~ReMatch(INSTANCE_REGEX_PATTERN, encoded)
        THEN Raise("InvalidInstanceError")
        ELSE IF Len(escaped) > MaxLabelOctets
        THEN Raise("InvalidInstanceError")
        ELSE Return(escaped)

----------------------------------------------------------------------------
(* service_to_bytes *)

\* b'_tcp' and b'_udp'
PROTO_TCP == <<95, 116, 99, 112>>
PROTO_UDP == <<95, 117, 100, 112>>

\* the exclusive upper limit of the service name's length
ServiceNameLimit == 16

\* positions of sep in b
Positions(b, sep) == {i \in 1..Len(b) : b[i] = sep}

Max(S) == CHOOSE x \in S : \A y \in S : y <= x
Min(S) == CHOOSE x \in S : \A y \in S : x <= y

\* b.rpartition(sep) for a one-byte sep: the parts before and after the last sep
RPartition(b, sep) ==
    IF Positions(b, sep) = {}
    THEN [name |-> <<>>, proto |-> b]
    ELSE LET i == Max(Positions(b, sep))
         IN  [name |-> SubSeq(b, 1, i - 1), proto |-> SubSeq(b, i + 1, Len(b))]

service_to_bytes(service) ==
    IF \E i \in 1..Len(service) : service[i] >= 128
    THEN Raise("UnicodeEncodeError")
    ELSE LET parts == RPartition(service, DOT)
             name == parts.name
             proto == parts.proto
         IN  IF name = <<>>
             THEN Raise("InvalidServiceError")
             ELSE IF proto # PROTO_TCP /\ proto # PROTO_UDP
             THEN Raise("InvalidServiceError")
             ELSE IF Head(name) # UNDERSCORE
             THEN Raise("InvalidServiceError")
             ELSE IF ~(0 < Len(Tail(name)) /\ Len(Tail(name)) < ServiceNameLimit)
             THEN Raise("InvalidServiceError")
             ELSE IF ~ReMatch(SERVICE_NAME_REGEX_PATTERN, Tail(name))
             THEN Raise("InvalidServiceError")
             ELSE Return(service)

----------------------------------------------------------------------------
(* subtype_to_bytes *)

subtype_to_bytes(subtype) ==
    IF Len(subtype) > MaxLabelOctets
    THEN Raise("InvalidSubtypeError")
    ELSE Return(Utf8(subtype))

----------------------------------------------------------------------------
(* domain_to_bytes *)

\* t.rstrip('.'): every trailing dot is removed
RECURSIVE RStrip(_, _)
RStrip(t, c) ==
    IF t # <<>> /\ t[Len(t)] = c THEN RStrip(SubSeq(t, 1, Len(t) - 1), c) ELSE t

\* t.split('.'): the labels between the dots, one more than there are dots
RECURSIVE Split(_, _)
Split(t, sep) ==
    IF Positions(t, sep) = {}
    THEN <<t>>
    ELSE LET i == Min(Positions(t, sep))
         IN  <<SubSeq(t, 1, i - 1)>> \o Split(SubSeq(t, i + 1, Len(t)), sep)

\* b'.'.join(parts)
RECURSIVE Join(_, _)
Join(parts, sep) ==
    IF parts = <<>> THEN <<>>
    ELSE IF Len(parts) = 1 THEN parts[1]
    ELSE parts[1] \o <<sep>> \o Join(Tail(parts), sep)

IsAscii(t) == \A i \in 1..Len(t) : t[i] < 128

\* the parameters of Punycode (RFC 3492, section 5), as the idna codec uses them
PunyBase == 36
PunyTMin == 1
PunyTMax == 26
PunySkew == 38
PunyDamp == 700
PunyInitialBias == 72
PunyInitialN == 128

\* the ACE prefix b'xn--'
ACE_PREFIX == <<120, 110, 45, 45>>

\* the basic code point of a digit 0..35: a-z, then 0-9
PunyDigit(d) == IF d < 26 THEN 97 + d ELSE 48 + (d - 26)

RECURSIVE PunyAdaptLoop(_, _)
PunyAdaptLoop(delta, k) ==
    IF delta > ((PunyBase - PunyTMin) * PunyTMax) \div 2
    THEN PunyAdaptLoop(delta \div (PunyBase - PunyTMin), k + PunyBase)
    ELSE k + (((PunyBase - PunyTMin + 1) * delta) \div (delta + PunySkew))

\* the bias adaptation after a delta has been written
PunyAdapt(delta, numpoints, first) ==
    LET d == IF first THEN delta \div PunyDamp ELSE delta \div 2
    IN  PunyAdaptLoop(d + (d \div numpoints), 0)

PunyThreshold(k, bias) ==
    IF k <= bias THEN PunyTMin
    ELSE IF k >= bias + PunyTMax THEN PunyTMax
    ELSE k - bias

\* a delta as a generalized variable-length integer
RECURSIVE PunyVarInt(_, _, _)
PunyVarInt(q, k, bias) ==
    LET t == PunyThreshold(k, bias)
    IN  IF q < t THEN <<PunyDigit(q)>>
        ELSE <<PunyDigit(t + ((q - t) % (PunyBase - t)))>>
             \o PunyVarInt((q - t) \div (PunyBase - t), k + PunyBase, bias)

\* the code point c met in the pass for the code point st.n
PunyStep(c, b, st) ==
    IF c < st.n
    THEN [st EXCEPT !.delta = @ + 1]
    ELSE IF c = st.n
    THEN [st EXCEPT !.out = @ \o PunyVarInt(st.delta, PunyBase, st.bias),
                    !.bias = PunyAdapt(st.delta, st.h + 1, st.h = b),
                    !.delta = 0,
                    !.h = @ + 1]
    ELSE st

\* one pass over input[lo..hi] for the code point st.n
RECURSIVE PunyPass(_, _, _, _, _)
PunyPass(input, b, lo, hi, st) ==
    IF lo > hi THEN st
    ELSE IF lo = hi THEN PunyStep(input[lo], b, st)
    ELSE LET left == PunyPass(input, b, lo, (lo + hi) \div 2, st)
         IN  IF left.h >= 0 THEN PunyPass(input, b, ((lo + hi) \div 2) + 1, hi, left) ELSE left

RECURSIVE PunyLoop(_, _, _)
PunyLoop(input, b, st) ==
    IF st.h >= Len(input) THEN st.out
    ELSE LET m == Min({input[i] : i \in {j \in 1..Len(input) : input[j] >= st.n}})
             st1 == [st EXCEPT !.delta = @ + (m - st.n) * (st.h + 1), !.n = m]
             st2 == PunyPass(input, b, 1, Len(input), st1)
         IN  PunyLoop(input, b, [st2 EXCEPT !.delta = @ + 1, !.n = @ + 1])

\* t.encode('punycode')
Punycode(t) ==
    LET basic == SelectSeq(t, LAMBDA c : c < 128)
        start == IF basic = <<>> THEN <<>> ELSE basic \o <<HYPHEN>>
    IN  PunyLoop(t, Len(basic),
                 [n |-> PunyInitialN, delta |-> 0, bias |-> PunyInitialBias,
                  h |-> Len(basic), out |-> start])

\* the case folding of nameprep (RFC 3454 table B.2) on the letters of the alphabets
CaseFold(c) ==
    IF c \in UpperLetters \/ c \in (192..222) \ {215} THEN c + 32 ELSE c

\* encodings.idna.nameprep: fold the case, then normalize
Nameprep(label) == NFC([i \in 1..Len(label) |-> CaseFold(label[i])])

\* encodings.idna.ToASCII of a label that is not pure ASCII
ToASCII(label) ==
    LET prepared == Nameprep(label)
        ace == ACE_PREFIX \o Punycode(prepared)
    IN  IF IsAscii(prepared)
        THEN IF 0 < Len(prepared) /\ Len(prepared) < MaxLabelOctets + 1
             THEN Return(prepared) ELSE Raise("UnicodeError")
        ELSE IF Len(prepared) >= 4 /\ SubSeq(prepared, 1, 4) = ACE_PREFIX
        THEN Raise("UnicodeError")
        ELSE IF 0 < Len(ace) /\ Len(ace) < MaxLabelOctets + 1
        THEN Return(ace) ELSE Raise("UnicodeError")

\* l.encode('idna') for a text l without dots
IdnaEncode(label) ==
    IF label = <<>> THEN Return(<<>>)
    ELSE IF IsAscii(label)
    THEN IF Len(label) >= MaxLabelOctets + 1 THEN Raise("UnicodeError") ELSE Return(label)
    ELSE ToASCII(label)

\* the labels domain_to_bytes encodes
DomainLabels(domain) == Split(RStrip(NFC(domain), DOT), DOT)

\* itertools.product(*pairs): the tuples that take one element of each pair, the
\* last position changing fastest
RECURSIVE Product(_)
Product(pairs) ==
    IF pairs = <<>> THEN << <<>> >>
    ELSE LET rest == Product(Tail(pairs))
             with(x) == [i \in 1..Len(rest) |-> <<x>> \o rest[i]]
         IN  with(Head(pairs)[1]) \o with(Head(pairs)[2])

\* the loop of domain_to_bytes without its membership test
CollectOptionsAll(options, tuples) ==
    options \o [i \in 1..Len(tuples) |-> Join(tuples[i], DOT)]

\* one turn of the loop of domain_to_bytes: append the option unless it is
\* already listed
AddOption(options, tuple) ==
    LET opt == Join(tuple, DOT)
    IN  IF \E i \in 1..Len(options) : options[i] = opt
        THEN options
        ELSE Append(options, opt)

\* the turns of the loop for tuples[lo..hi]
RECURSIVE AddOptions(_, _, _, _)
AddOptions(options, tuples, lo, hi) ==
    IF lo > hi THEN options
    ELSE IF lo = hi THEN AddOption(options, tuples[lo])
    ELSE LET left == AddOptions(options, tuples, lo, (lo + hi) \div 2)
         IN  IF Len(left) >= 0 THEN AddOptions(left, tuples, ((lo + hi) \div 2) + 1, hi) ELSE left

\* the loop of domain_to_bytes
CollectOptions(options, tuples) == AddOptions(options, tuples, 1, Len(tuples))

domain_to_bytes(domain) ==
    LET labels == DomainLabels(domain)
        utf8_labels == [i \in 1..Len(labels) |-> Utf8(labels[i])]
        idna_labels == [i \in 1..Len(labels) |-> IdnaEncode(labels[i])]
    IN  IF \E i \in 1..Len(labels) : idna_labels[i].status # "ok"
        THEN Raise("UnicodeError")
        ELSE Return(CollectOptions(<<>>,
                 Product([i \in 1..Len(labels) |-> <<utf8_labels[i], idna_labels[i].val>>])))

----------------------------------------------------------------------------
(* ServiceInstance *)

\* an optional bytes argument: None, or a value
None == [some |-> FALSE, val |-> <<>>]
Some(b) == [some |-> TRUE, val |-> b]

\* the length above which the constructor means to warn
WarnLength == 256

\* string.ascii_uppercase and string.ascii_lowercase
ascii_uppercase == [i \in 1..26 |-> 64 + i]
ascii_lowercase == [i \in 1..26 |-> 96 + i]

\* the property service_instance_name
service_instance_name(obj) ==
    Join(<<obj.instance, obj.service, obj.domain>>, DOT) \o <<DOT>>

\* value > n for a bytes value and an int n: Python 2 orders an int before any
\* str whatever their values, Python 3 refuses to order them
BytesGreaterThanInt(ver, value, n) ==
    IF ver = 2 THEN Return(TRUE) ELSE Raise("TypeError")

\* b.translate(table, delete) for str arguments: Python 3 accepts only
\* bytes-like arguments, Python 2 only a table of 256 characters
BytesTranslate(ver, b, table, delete) ==
    IF ver # 2 THEN Raise("TypeError")
    ELSE IF Len(table) # 256 THEN Raise("ValueError")
    ELSE Return([i \in 1..Len(SelectSeq(b, LAMBDA c : \A j \in 1..Len(delete) : delete[j] # c))
                    |-> table[SelectSeq(b, LAMBDA c : \A j \in 1..Len(delete) : delete[j] # c)[i] + 1]])

is_instance_of_service(ver, obj, service, subtype) ==
    IF subtype.some /\ ~obj.subtype.some
    THEN Return(FALSE)
    ELSE LET svc == BytesTranslate(ver, service, ascii_uppercase, ascii_lowercase)
             self_service == BytesTranslate(ver, obj.service, ascii_uppercase, ascii_lowercase)
             sub == BytesTranslate(ver, subtype.val, ascii_uppercase, ascii_lowercase)
             self_subtype == BytesTranslate(ver, sub.val, ascii_uppercase, ascii_lowercase)
         IN  IF svc.status # "ok" THEN svc
             ELSE IF self_service.status # "ok" THEN self_service
             ELSE IF svc.val = self_service.val
             THEN IF subtype.some
                  THEN IF sub.status # "ok" THEN sub
                       ELSE IF self_subtype.status # "ok" THEN self_subtype
                       ELSE Return(sub.val = self_subtype.val)
                  ELSE Return(TRUE)
             ELSE Return(FALSE)

----------------------------------------------------------------------------
(* The inputs drawn *)

\* the interpreters the module runs under
PyMajor == {2, 3}

\* the code points used below: 97 'a', 233 e-acute, 769 the combining acute
\* accent, 101 'e', 65 'A', 90 'Z', 49 '1', 8364 the euro sign

\* code points of instance texts: controls, the escaped characters, letters
InstanceAlphabet == {1, LF, UNIT_SEPARATOR, DEL, DOT, BACKSLASH, 97, 101, 769, 233}

\* a free head followed by a run of one character that brings the text to the limit
InstanceTexts ==
    {h \o Repeat(r[1], r[2]) :
        h \in SeqsUpTo(InstanceAlphabet, MaxHead),
        r \in {<<97, 0>>,
               <<DOT, MaxLabelOctets \div 2>>, <<DOT, (MaxLabelOctets \div 2) + 1>>,
               <<97, MaxLabelOctets - 1>>, <<97, MaxLabelOctets>>}}

ServiceAlphabet == {97, 90, 49, HYPHEN, DOT, LF, UNDERSCORE, 233}

ServiceSuffixes ==
    {<<>>, <<DOT>>, <<DOT>> \o PROTO_TCP, <<DOT>> \o PROTO_UDP, <<DOT, 95, 84, 67, 80>>}

ServiceTexts ==
    {pre \o Repeat(97, k) \o h \o suf :
        pre \in {<<>>, <<UNDERSCORE>>},
        k \in {0, ServiceNameLimit - 3, ServiceNameLimit - 2},
        h \in SeqsUpTo(ServiceAlphabet, MaxHead),
        suf \in ServiceSuffixes}

SubtypeAlphabet == {97, 233, 8364}

SubtypeTexts ==
    {h \o Repeat(c, k) :
        h \in SeqsUpTo(SubtypeAlphabet, MaxHead),
        c \in {97, 233},
        k \in {0, MaxLabelOctets \div 2, MaxLabelOctets - 2, MaxLabelOctets - 1, MaxLabelOctets}}

DomainAlphabet == {DOT, 97, 65, 233, 769}

DomainTexts ==
    SeqsUpTo(DomainAlphabet, MaxDomainLen)
    \cup {h \o Repeat(c, k) :
            h \in SeqsUpTo(DomainAlphabet, 1),
            c \in {97, 233},
            k \in {MaxLabelOctets - 7, MaxLabelOctets - 6, MaxLabelOctets - 1, MaxLabelOctets}}

\* b'_a._tcp', b'_A._TCP', b'_b._tcp', and the UTF-8 of '_é._tcp' and '_É._tcp'
EntityServices ==
    {<<95, 97, 46, 95, 116, 99, 112>>, <<95, 65, 46, 95, 84, 67, 80>>,
     <<95, 98, 46, 95, 116, 99, 112>>,
     <<95, 195, 169, 46, 95, 116, 99, 112>>, <<95, 195, 137, 46, 95, 116, 99, 112>>}

\* None, b'_p', b'_P', b'_q'
EntitySubtypes == {None, Some(<<95, 112>>), Some(<<95, 80>>), Some(<<95, 113>>)}

EntityInstances == {<<70>>, <<70, 111, 111>>}

EntityDomains ==
    {Repeat(97, k) : k \in {5, WarnLength - 13, WarnLength - 12, WarnLength - 11}}

ConstructorArgs ==
    [instance : EntityInstances, service : EntityServices,
     domain : EntityDomains, subtype : EntitySubtypes]

NoObject == [instance |-> <<>>, service |-> <<>>, domain |-> <<>>, subtype |-> None]
NoQuery == [service |-> <<>>, subtype |-> None]

----------------------------------------------------------------------------
(* The state machine *)

Init ==
    /\ pc = "call"
    /\ py \in PyMajor
    /\ ret = NoRet
    /\ warned = 0
    /\ query = NoQuery
    /\ self = NoObject
    /\ \/ op = "instance_to_bytes" /\ text \in InstanceTexts /\ escape \in BOOLEAN
          /\ args = NoObject
       \/ op = "service_to_bytes" /\ text \in ServiceTexts /\ escape = TRUE
          /\ args = NoObject
       \/ op = "subtype_to_bytes" /\ text \in SubtypeTexts /\ escape = TRUE
          /\ args = NoObject
       \/ op = "domain_to_bytes" /\ text \in DomainTexts /\ escape = TRUE
          /\ args = NoObject
       \/ op = "ServiceInstance" /\ text = <<>> /\ escape = TRUE
          /\ args \in ConstructorArgs

CallInstanceToBytes ==
    /\ pc = "call" /\ op = "instance_to_bytes"
    /\ ret' = instance_to_bytes(text, escape)
    /\ pc' = "done"
    /\ UNCHANGED <<py, op, text, escape, args, self, warned, query>>

CallServiceToBytes ==
    /\ pc = "call" /\ op = "service_to_bytes"
    /\ ret' = service_to_bytes(text)
    /\ pc' = "done"
    /\ UNCHANGED <<py, op, text, escape, args, self, warned, query>>

CallSubtypeToBytes ==
    /\ pc = "call" /\ op = "subtype_to_bytes"
    /\ ret' = subtype_to_bytes(text)
    /\ pc' = "done"
    /\ UNCHANGED <<py, op, text, escape, args, self, warned, query>>

CallDomainToBytes ==
    /\ pc = "call" /\ op = "domain_to_bytes"
    /\ ret' = domain_to_bytes(text)
    /\ pc' = "done"
    /\ UNCHANGED <<py, op, text, escape, args, self, warned, query>>

\* ServiceInstance.__init__: the four assignments, then the length test
Construct ==
    /\ pc = "call" /\ op = "ServiceInstance"
    /\ self' = [instance |-> args.instance, service |-> args.service,
                domain |-> args.domain, subtype |-> args.subtype]
    /\ LET test == BytesGreaterThanInt(py, service_instance_name(self'), WarnLength)
       IN  IF test.status # "ok"
           THEN ret' = test /\ warned' = warned /\ pc' = "done"
           ELSE /\ ret' = Return(<<>>)
                /\ warned' = IF test.val THEN warned + 1 ELSE warned
                /\ pc' = "object"
    /\ UNCHANGED <<py, op, text, escape, args, query>>

\* a call of is_instance_of_service on the constructed object
CallIsInstanceOfService ==
    /\ pc = "object"
    /\ \E service \in EntityServices, subtype \in EntitySubtypes :
          /\ query' = [service |-> service, subtype |-> subtype]
          /\ ret' = is_instance_of_service(py, self, service, subtype)
    /\ op' = "is_instance_of_service"
    /\ UNCHANGED <<pc, py, text, escape, args, self, warned>>

Next ==
    \/ CallInstanceToBytes
    \/ CallServiceToBytes
    \/ CallSubtypeToBytes
    \/ CallDomainToBytes
    \/ Construct
    \/ CallIsInstanceOfService

Spec == Init /\ [][Next]_vars

----------------------------------------------------------------------------
(* The claims *)

InstanceDone == op = "instance_to_bytes" /\ pc = "done"
ServiceDone == op = "service_to_bytes" /\ pc = "done"
SubtypeDone == op = "subtype_to_bytes" /\ pc = "done"
DomainDone == op = "domain_to_bytes" /\ pc = "done"
Constructed == op = "ServiceInstance" /\ pc # "call"
Asked == op = "is_instance_of_service"

\* the ASCII control bytes
ControlBytes == (0..31) \cup {127}
HasControl(b) == \E i \in 1..Len(b) : b[i] \in ControlBytes

\* the number of bytes of b that are in S
CountIn(b, S) == Cardinality({i \in 1..Len(b) : b[i] \in S})

\* the length of b once every backslash and every dot has grown by one octet
EscapedLength(b) == Len(b) + CountIn(b, {BACKSLASH, DOT})

\* the number of backslashes that stand in a row just before position i
BackslashesBefore(b, i) ==
    (i - 1) - Max({0} \cup {j \in 1..(i - 1) : b[j] # BACKSLASH})

\* position i holds the backslash of an escape: it is followed by a backslash
\* or a dot, and it is not itself the escaped character of the pair before it
IsEscapeMark(b, i) ==
    /\ b[i] = BACKSLASH
    /\ i < Len(b) /\ b[i + 1] \in {BACKSLASH, DOT}
    /\ BackslashesBefore(b, i) % 2 = 0

\* two backslashes -> one backslash, backslash-dot -> dot: the bytes left once
\* the backslash of every escape is dropped
Unescape(b) ==
    LET kept == SelectSeq([i \in 1..Len(b) |-> i], LAMBDA i : ~IsEscapeMark(b, i))
    IN  [k \in 1..Len(kept) |-> b[kept[k]]]

\* ASCII letters A-Z folded to a-z, every other byte kept
FoldAscii(b) == [i \in 1..Len(b) |-> IF b[i] \in 65..90 THEN b[i] + 32 ELSE b[i]]

\* C1: an instance text whose NFC-normalized UTF-8 encoding contains an ASCII
\* control byte (0x00-0x1F or 0x7F) anywhere is rejected with
\* InvalidInstanceError, whatever escape is.
C1_ControlByteRejected ==
    (InstanceDone /\ HasControl(Utf8(NFC(text))))
        => ret.status = "InvalidInstanceError"

\* C2: with escape=True, an instance text (the empty one included) without
\* control bytes whose escaped form has at most 63 octets is accepted, and
\* unescaping the result gives back the NFC-normalized UTF-8 bytes.
C2_EscapeRoundTrip ==
    (InstanceDone /\ escape /\ ~HasControl(Utf8(NFC(text)))
        /\ EscapedLength(Utf8(NFC(text))) <= 63)
        => (ret.status = "ok" /\ Unescape(ret.val) = Utf8(NFC(text)))

\* C3: the 63-octet limit of instance_to_bytes is applied to the returned
\* bytes: a returned value has at most 63 octets, and with escape=True a text
\* of at most 63 octets whose escaped form is longer than 63 octets is
\* rejected with InvalidInstanceError.
C3_LimitAfterEscaping ==
    InstanceDone
        => /\ ret.status = "ok" => Len(ret.val) <= 63
           /\ (escape /\ Len(Utf8(NFC(text))) <= 63 /\ EscapedLength(Utf8(NFC(text))) > 63)
                 => ret.status = "InvalidInstanceError"

\* a text of dots and letters only, short enough unescaped, too long escaped,
\* has been rejected
C3_Witness ==
    /\ InstanceDone /\ escape
    /\ text # <<>> /\ \A i \in 1..Len(text) : text[i] \in {DOT, 97}
    /\ Len(Utf8(NFC(text))) <= 63
    /\ EscapedLength(Utf8(NFC(text))) > 63
    /\ ret.status = "InvalidInstanceError"

\* the service-name grammar of RFC 6335: letters, digits and hyphens, at least
\* one letter, no hyphen first or last, no two hyphens in a row
GrammarName(name) ==
    /\ \A i \in 1..Len(name) : name[i] \in UpperLetters \cup LowerLetters \cup Digits \cup {HYPHEN}
    /\ \E i \in 1..Len(name) : name[i] \in UpperLetters \cup LowerLetters
    /\ name[1] # HYPHEN
    /\ name[Len(name)] # HYPHEN
    /\ \A i \in 1..(Len(name) - 1) : ~(name[i] = HYPHEN /\ name[i + 1] = HYPHEN)

\* '_' + name + '.' + proto with a name of 1 to 15 octets of the grammar
WellFormedService(t) ==
    \E n \in 1..15 :
        /\ Len(t) = n + 6
        /\ t[1] = UNDERSCORE
        /\ t[n + 2] = DOT
        /\ SubSeq(t, n + 3, n + 6) \in {PROTO_TCP, PROTO_UDP}
        /\ GrammarName(SubSeq(t, 2, n + 1))

\* C4: for an ASCII service text, service_to_bytes succeeds exactly when the
\* text is '_' + name + '.' + ('_tcp' or '_udp') with a name of 1 to 15 octets
\* of the RFC 6335 grammar; it then returns the text unchanged, and fails with
\* InvalidServiceError in every other case.
C4_ServiceAcceptedIffWellFormed ==
    (ServiceDone /\ IsAscii(text))
        => /\ (ret.status = "ok") <=> WellFormedService(text)
           /\ ret.status = "ok" => ret.val = text
           /\ ret.status # "ok" => ret.status = "InvalidServiceError"

\* C5: subtype_to_bytes fails with InvalidSubtypeError exactly when the UTF-8
\* encoding of the text is longer than 63 octets; otherwise it returns the
\* UTF-8 encoding, so a returned subtype has at most 63 octets.
C5_SubtypeOctetLimit ==
    SubtypeDone
        => /\ (ret.status = "InvalidSubtypeError") <=> (Len(Utf8(text)) > 63)
           /\ ret.status # "InvalidSubtypeError"
                 => (ret.status = "ok" /\ ret.val = Utf8(text) /\ Len(ret.val) <= 63)

\* the labels of a domain text: the dot-free runs of its NFC form, without the
\* empty runs that trailing dots leave at its end
RECURSIVE DropEmptyTail(_)
DropEmptyTail(ls) ==
    IF Len(ls) > 1 /\ ls[Len(ls)] = <<>> THEN DropEmptyTail(SubSeq(ls, 1, Len(ls) - 1)) ELSE ls

LabelsOf(t) == DropEmptyTail(Split(NFC(t), DOT))

\* the candidate of a choice f: label i in UTF-8 where f[i] = 0, in IDNA where f[i] = 1
Candidate(ls, f) ==
    Join([i \in 1..Len(ls) |-> IF f[i] = 0 THEN Utf8(ls[i]) ELSE IdnaEncode(ls[i]).val], DOT)

Choices(ls) == [1..Len(ls) -> {0, 1}]

\* the place of a choice in the cross product: the last label changes fastest
RECURSIVE Rank(_, _)
Rank(f, n) == IF n = 0 THEN 0 ELSE 2 * Rank(f, n - 1) + f[n]

\* the place at which the cross product first produces the byte string x
FirstRank(ls, x) == Min({Rank(f, Len(ls)) : f \in {g \in Choices(ls) : Candidate(ls, g) = x}})

\* C6: for a domain text whose labels can all be IDNA-encoded, domain_to_bytes
\* returns exactly the byte strings obtained by choosing for each label its
\* UTF-8 or its IDNA encoding and joining them with '.', each once, in the order
\* in which the cross product first produces them, the all-UTF-8 candidate
\* first; a domain of pure ASCII labels yields exactly one candidate.
C6_DomainCandidates ==
    (DomainDone /\ \A i \in 1..Len(LabelsOf(text)) : IdnaEncode(LabelsOf(text)[i]).status = "ok")
        => LET ls == LabelsOf(text)
           IN  /\ ret.status = "ok"
               /\ {ret.val[i] : i \in 1..Len(ret.val)} = {Candidate(ls, f) : f \in Choices(ls)}
               /\ \A i, j \in 1..Len(ret.val) : i # j => ret.val[i] # ret.val[j]
               /\ ret.val[1] = Candidate(ls, [i \in 1..Len(ls) |-> 0])
               /\ \A i, j \in 1..Len(ret.val) :
                     i < j => FirstRank(ls, ret.val[i]) < FirstRank(ls, ret.val[j])
               /\ (\A i \in 1..Len(ls) : IsAscii(ls[i])) => Len(ret.val) = 1

\* a domain of three labels, some pure ASCII and some not, has been encoded:
\* more than one candidate, fewer than the eight of the cross product
C6_Witness ==
    /\ DomainDone /\ ret.status = "ok"
    /\ Len(LabelsOf(text)) = 3
    /\ Len(ret.val) > 1
    /\ Len(ret.val) < 8

\* C7: without a subtype, is_instance_of_service never fails and returns
\* whether the passed service and the object's service are equal once the
\* ASCII letters A-Z are folded to a-z.
C7_ServiceMatchIgnoresAsciiCase ==
    (Asked /\ ~query.subtype.some)
        => (ret.status = "ok"
            /\ ret.val = (FoldAscii(query.service) = FoldAscii(self.service)))

\* C8: with a subtype, is_instance_of_service returns true only if the object
\* has a subtype, the services are equal ignoring ASCII case and the subtypes
\* are equal ignoring ASCII case; it returns false when the object has no
\* subtype and when the object's subtype differs from the passed one.
C8_SubtypeMatch ==
    (Asked /\ query.subtype.some)
        => /\ (ret.status = "ok" /\ ret.val)
                 => /\ self.subtype.some
                    /\ FoldAscii(query.service) = FoldAscii(self.service)
                    /\ FoldAscii(query.subtype.val) = FoldAscii(self.subtype.val)
           /\ ~self.subtype.some => (ret.status = "ok" /\ ret.val = FALSE)
           /\ (self.subtype.some
                 /\ FoldAscii(query.subtype.val) # FoldAscii(self.subtype.val))
                 => (ret.status = "ok" /\ ret.val = FALSE)

\* C9: constructing a ServiceInstance always succeeds and leaves the four
\* fields set to the given values; the warning is logged when the
\* service_instance_name is longer than 256 octets and not logged otherwise.
C9_ConstructionAlwaysSucceeds ==
    Constructed
        => /\ ret.status = "ok"
           /\ self = args
           /\ (warned > 0) <=> (Len(service_instance_name(args)) > 256)

\* C10: every failure of service_to_bytes is an InvalidServiceError, also the
\* failure on a text with a non-ASCII character.
C10_ServiceFailureIsInvalidService ==
    (ServiceDone /\ ret.status # "ok") => ret.status = "InvalidServiceError"

====
